---- MODULE Spec2Model ----
(***************************************************************************)
(* The turn-advance protocol of the interactive-fiction client:            *)
(* src/App.tsx (App: init, handleAction, generateImageForSegment) and      *)
(* src/services/gemini.ts (generateStorySegment, generateSceneImage,       *)
(* checkAndRequestApiKey).  React state hooks are the variables; every     *)
(* handler is split at its awaits, one action per synchronous part.        *)
(* State updates made in one synchronous part are rendered together        *)
(* (automatic batching), so a part is one atomic step.                     *)
(***************************************************************************)
EXTENDS Integers, Sequences, FiniteSets, TLC

\* ---- bounds of the model ----
MaxTurns == 2   \* accepted submissions per session
MaxTime == 1    \* readings of the millisecond clock (Date.now()) are 0..MaxTime

\* ---- optional values: JS null / undefined / absent field is <<>>, a value v is <<v>> ----
Null == <<>>
Some(v) == <<v>>

Range(s) == {s[i] : i \in DOMAIN s}

\* ---- program texts ----
InitialQuest == "Awaken and find your purpose."
InitialChoices == <<"Look around">>
InitText == "You awaken in a dimly lit chamber. The air is cold and smells of ancient stone. Dust motes dance in a stray beam of light cutting through the darkness. You have no memory of how you arrived here."
InitSegmentChoices == <<"Search the room", "Call out for help", "Examine yourself">>
InitImagePrompt == "A dimly lit ancient stone chamber, cold atmosphere, dust motes in light beam."
FallbackText == "The mists of uncertainty cloud your vision... (AI Generation Error, please try again)."
FallbackImagePrompt == "A foggy void of uncertainty."

\* ---- inputs: what the player types and what the backend answers ----
FreeTexts == {"open the door"}

\* response texts that JSON.parse accepts, as the values they parse to (storySchema):
\* items found (one named twice), no quest update, an image prompt
FoundItems ==
  [narrative |-> "You find a torch and a rusty key.",
   inventory_add |-> <<"torch", "rusty key", "torch">>, inventory_remove |-> <<>>,
   new_quest |-> Null, image_prompt |-> "A torch and a key on the floor.",
   suggested_choices |-> <<"Use key", "Leave">>]

\* an item both added and removed, a new quest, an empty image prompt
BurntTorch ==
  [narrative |-> "The torch burns out as you light it.",
   inventory_add |-> <<"torch">>, inventory_remove |-> <<"torch">>,
   new_quest |-> Some("Find the exit."), image_prompt |-> "",
   suggested_choices |-> <<"Use key", "Leave">>]

\* an item removed, an empty quest string, no suggested choice
LostTorch ==
  [narrative |-> "The torch slips from your hand.",
   inventory_add |-> <<>>, inventory_remove |-> <<"torch">>,
   new_quest |-> Some(""), image_prompt |-> "A torch falling into the dark.",
   suggested_choices |-> <<>>]

StoryJson == {FoundItems, BurntTorch, LostTorch}

\* the ways ai.models.generateContent can end for the story model
StoryFailures == {[kind |-> "reject"], [kind |-> "noText"], [kind |-> "badJson"]}
StoryResponses == StoryFailures \cup {[kind |-> "json", value |-> v] : v \in StoryJson}

\* the prompts generateSceneImage is called with
ScenePrompts ==
  {InitImagePrompt, FallbackImagePrompt} \cup {v.image_prompt : v \in StoryJson}

\* the ways ai.models.generateContent can end for the image model, asked for `prompt`:
\* the inline data stands for the picture painted for that prompt, one per prompt
ImageResponsesTo(prompt) ==
  {[kind |-> "reject"], [kind |-> "noInlineData"],
   [kind |-> "inline", mimeType |-> "image/png", data |-> prompt]}

ImageResponses == UNION {ImageResponsesTo(prompt) : prompt \in ScenePrompts}

VARIABLES
  hasApiKey,        \* useState(false)
  loading,          \* useState(false): TRUE is AwaitingTurn, FALSE is Idle
  initializing,     \* useState(false)
  gameState,        \* useState<GameState>
  storyLog,         \* useState<StorySegment[]>
  currentChoices,   \* useState<string[]>
  initPc,           \* where the init effect stands: "mount", "hasKey", "select", "done"
  aistudio,         \* whether the host injected window.aistudio
  credential,       \* whether a key is selected in the host
  storyCalls,       \* generateStorySegment calls awaited by handleAction
  imageCalls,       \* generateSceneImage calls awaited by generateImageForSegment
  now,              \* Date.now()
  turns,            \* history: number of submissions handleAction accepted
  created,          \* history: number of segments ever built
  imageless,        \* history: serial numbers of segments whose image call gave null
  dropped           \* history: the last handler step was a submission handleAction dropped

vars == <<hasApiKey, loading, initializing, gameState, storyLog, currentChoices, initPc,
          aistudio, credential, storyCalls, imageCalls, now, turns, created, imageless, dropped>>

\* ---- src/types.ts: StorySegment; serial is history (the order of construction) ----
Segment(id, text, choices, isUser, imagePrompt, serial) ==
  [id |-> id, text |-> text, choices |-> choices, isUser |-> isUser,
   imagePrompt |-> imagePrompt, imageUrl |-> Null, timestamp |-> now, serial |-> serial]

\* ---- src/services/gemini.ts ----

\* generateStorySegment: the try block's result, or the catch block's fallback
FallbackResult ==
  [narrative |-> FallbackText, inventory_add |-> <<>>, inventory_remove |-> <<>>,
   new_quest |-> Null, image_prompt |-> FallbackImagePrompt,
   suggested_choices |-> <<"Try again">>]

generateStorySegmentNoCatch(resp) ==
  IF resp.kind = "json"
  THEN [raised |-> FALSE, result |-> resp.value]
  ELSE [raised |-> TRUE, result |-> FallbackResult]

\* raised: whether the returned promise rejects; the catch block takes every failure
\* of the try block, so it never does
generateStorySegment(resp) ==
  IF resp.kind = "json"
  THEN [raised |-> FALSE, result |-> resp.value]
  ELSE [raised |-> FALSE, result |-> FallbackResult]

\* generateSceneImage: the data URI of the inline part, or null
generateSceneImage(resp) ==
  IF resp.kind = "inline"
  THEN Some("data:" \o resp.mimeType \o ";base64," \o resp.data)
  ELSE Null

\* ---- src/App.tsx: the setGameState updater of handleAction ----
SetOf(arr) ==
  LET RECURSIVE go(_, _)
      go(i, acc) == IF i > Len(arr) THEN acc
                    ELSE go(i + 1, IF arr[i] \in Range(acc) THEN acc ELSE Append(acc, arr[i]))
  IN go(1, <<>>)

SetAdd(s, x) == IF x \in Range(s) THEN s ELSE Append(s, x)
SetDelete(s, x) == SelectSeq(s, LAMBDA y : y # x)

RECURSIVE AddAll(_, _)
AddAll(s, items) ==
  IF items = <<>> THEN s ELSE AddAll(SetAdd(s, Head(items)), Tail(items))

RECURSIVE DeleteAll(_, _)
DeleteAll(s, items) ==
  IF items = <<>> THEN s ELSE DeleteAll(SetDelete(s, Head(items)), Tail(items))

MergeInventoryRemoveFirst(inventory, add, remove) ==
  AddAll(DeleteAll(SetOf(inventory), remove), add)

MergeInventory(inventory, add, remove) ==
  DeleteAll(AddAll(SetOf(inventory), add), remove)

MergeQuestNullish(currentQuest, new_quest) ==
  IF new_quest # Null THEN new_quest[1] ELSE currentQuest

\* result.new_quest || prev.currentQuest
MergeQuest(currentQuest, new_quest) ==
  IF new_quest # Null /\ new_quest[1] # "" THEN new_quest[1] ELSE currentQuest

ApplyResult(prev, result) ==
  [prev EXCEPT !.inventory = MergeInventory(prev.inventory, result.inventory_add,
                                            result.inventory_remove),
               !.currentQuest = MergeQuest(prev.currentQuest, result.new_quest)]

\* ---- src/App.tsx: segment ids ----
UserSegmentId == ToString(now) \o "-user"
NarrativeSegmentId == ToString(now)

\* ---- src/App.tsx: the setStoryLog updater of generateImageForSegment ----
PatchImage(log, segmentId, imageUrl) ==
  [i \in DOMAIN log |->
     IF log[i].id = segmentId THEN [log[i] EXCEPT !.imageUrl = imageUrl] ELSE log[i]]

\* what generateImageForSegment(segmentId, prompt) leaves in flight
ImageCall(segmentId, prompt, serial) ==
  [segmentId |-> segmentId, prompt |-> prompt, serial |-> serial]

\* ---- the rendered screen ----
ReloadPromptShown == ~hasApiKey /\ ~initializing
ControlsShown == ~ReloadPromptShown

Init ==
  /\ hasApiKey = FALSE
  /\ loading = FALSE
  /\ initializing = FALSE
  /\ gameState = [inventory |-> <<>>, currentQuest |-> InitialQuest,
                  health |-> 100, location |-> "Unknown"]
  /\ storyLog = <<>>
  /\ currentChoices = InitialChoices
  /\ initPc = "mount"
  /\ aistudio \in BOOLEAN
  /\ credential \in (IF aistudio THEN BOOLEAN ELSE {FALSE})
  /\ storyCalls = {}
  /\ imageCalls = {}
  /\ now = 0
  /\ turns = 0
  /\ created = 0
  /\ imageless = {}
  /\ dropped = FALSE

\* checkAndRequestApiKey: its return value where the hook is absent (hook = FALSE), where
\* hasSelectedApiKey() gave hasKey, and, for hasKey = FALSE, after openSelectKey()
checkAndRequestApiKey(hook, hasKey) ==
  IF hook
  THEN IF ~hasKey THEN TRUE ELSE TRUE
  ELSE TRUE

\* ---- init: the rest of the effect once checkAndRequestApiKey has returned keySelected ----
InitFinish(keySelected) ==
  /\ hasApiKey' = keySelected
  /\ initializing' = FALSE
  /\ initPc' = "done"
  /\ IF keySelected
     THEN /\ storyLog' = <<Segment("init", InitText, InitSegmentChoices, FALSE, Null,
                                   created + 1)>>
          /\ currentChoices' = InitSegmentChoices
          /\ imageCalls' = imageCalls \cup {ImageCall("init", InitImagePrompt, created + 1)}
          /\ created' = created + 1
     ELSE UNCHANGED <<storyLog, currentChoices, imageCalls, created>>

\* the effect runs after the first render; without the host hook
\* checkAndRequestApiKey returns true with no await on the host
InitEffect ==
  /\ initPc = "mount"
  /\ dropped' = FALSE
  /\ IF aistudio
     THEN /\ initializing' = TRUE
          /\ initPc' = "hasKey"
          /\ UNCHANGED <<hasApiKey, storyLog, currentChoices, imageCalls, created>>
     ELSE InitFinish(checkAndRequestApiKey(FALSE, FALSE))
  /\ UNCHANGED <<loading, gameState, aistudio, credential, storyCalls, now, turns, imageless>>

\* window.aistudio.hasSelectedApiKey() resolves
HasSelectedApiKeyResolves ==
  /\ initPc = "hasKey"
  /\ dropped' = FALSE
  /\ IF credential
     THEN InitFinish(checkAndRequestApiKey(TRUE, TRUE))
     ELSE /\ initPc' = "select"
          /\ UNCHANGED <<hasApiKey, initializing, storyLog, currentChoices, imageCalls,
                         created>>
  /\ UNCHANGED <<loading, gameState, aistudio, credential, storyCalls, now, turns, imageless>>

\* window.aistudio.openSelectKey() resolves, the player having picked a key or not
OpenSelectKeyResolves ==
  /\ initPc = "select"
  /\ dropped' = FALSE
  /\ credential' \in BOOLEAN
  /\ InitFinish(checkAndRequestApiKey(TRUE, FALSE))
  /\ UNCHANGED <<loading, gameState, aistudio, storyCalls, now, turns, imageless>>

\* ---- handleAction ----

AcceptsAlways == TRUE

\* if (loading) return;
Accepts == ~loading

\* storyLog.filter(s => !s.isUser).slice(-5).map(s => s.text)
HistoryText(log) ==
  LET narrative == SelectSeq(log, LAMBDA s : ~s.isUser)
      n == Len(narrative)
  IN [i \in 1..(IF n > 5 THEN 5 ELSE n) |-> narrative[i + (IF n > 5 THEN n - 5 ELSE 0)].text]

\* what the player submits: the first choice button, or, where there is none, non-empty
\* text typed in the input
Submittable == IF currentChoices # <<>> THEN {currentChoices[1]} ELSE FreeTexts

\* the part of handleAction before the await
handleAction(action) ==
  /\ ControlsShown
  /\ action \in Submittable
  /\ IF Accepts
     THEN /\ turns < MaxTurns
          /\ loading' = TRUE
          /\ storyLog' = Append(storyLog,
                                Segment(UserSegmentId, action, <<>>, TRUE, Null, created + 1))
          /\ storyCalls' = storyCalls \cup
               {[turn |-> turns + 1, history |-> HistoryText(storyLog), userAction |-> action,
                 currentInventory |-> gameState.inventory,
                 currentQuest |-> gameState.currentQuest]}
          /\ turns' = turns + 1
          /\ created' = created + 1
          /\ dropped' = FALSE
     ELSE /\ dropped' = TRUE
          /\ UNCHANGED <<loading, storyLog, storyCalls, turns, created>>
  /\ UNCHANGED <<hasApiKey, initializing, gameState, currentChoices, initPc, aistudio,
                 credential, imageCalls, now, imageless>>

ChoicesAfterTurnStale(result) == currentChoices

\* setCurrentChoices(result.suggested_choices)
ChoicesAfterTurn(result) == result.suggested_choices

\* the part of handleAction after the await: generateStorySegment has returned
\* (a rejected await would end handleAction there, with nothing after it run)
StoryResolves(call, resp) ==
  LET returned == generateStorySegment(resp)
      result == returned.result
      newSegmentId == NarrativeSegmentId
      newSegment == Segment(newSegmentId, result.narrative, result.suggested_choices, FALSE,
                            Some(result.image_prompt), created + 1)
  IN /\ call \in storyCalls
     /\ storyCalls' = storyCalls \ {call}
     /\ dropped' = FALSE
     /\ IF returned.raised
        THEN UNCHANGED <<gameState, storyLog, currentChoices, loading, imageCalls, created>>
        ELSE /\ gameState' = ApplyResult(gameState, result)
             /\ storyLog' = Append(storyLog, newSegment)
             /\ currentChoices' = ChoicesAfterTurn(result)
             /\ loading' = FALSE
             /\ imageCalls' = IF result.image_prompt # ""
                              THEN imageCalls \cup
                                     {ImageCall(newSegmentId, result.image_prompt, created + 1)}
                              ELSE imageCalls
             /\ created' = created + 1
     /\ UNCHANGED <<hasApiKey, initializing, initPc, aistudio, credential, now, turns,
                    imageless>>

\* ---- generateImageForSegment after its await: generateSceneImage has returned ----
ImageResolves(call, resp) ==
  LET imageUrl == generateSceneImage(resp)
  IN /\ call \in imageCalls
     /\ resp \in ImageResponsesTo(call.prompt)
     /\ imageCalls' = imageCalls \ {call}
     /\ IF imageUrl # Null
        THEN /\ storyLog' = PatchImage(storyLog, call.segmentId, imageUrl)
             /\ UNCHANGED imageless
        ELSE /\ imageless' = imageless \cup {call.serial}
             /\ UNCHANGED storyLog
     /\ dropped' = FALSE
     /\ UNCHANGED <<hasApiKey, loading, initializing, gameState, currentChoices, initPc,
                    aistudio, credential, storyCalls, now, turns, created>>

\* ---- the millisecond clock advances between any two steps, or does not ----
Tick ==
  /\ now < MaxTime
  /\ now' = now + 1
  /\ UNCHANGED <<hasApiKey, loading, initializing, gameState, storyLog, currentChoices,
                 initPc, aistudio, credential, storyCalls, imageCalls, turns, created,
                 imageless, dropped>>

Submit == \E action \in Submittable : handleAction(action)
StoryAnswer == \E call \in storyCalls, resp \in StoryResponses : StoryResolves(call, resp)
ImageAnswer == \E call \in imageCalls, resp \in ImageResponses : ImageResolves(call, resp)

Next ==
  \/ InitEffect
  \/ HasSelectedApiKeyResolves
  \/ OpenSelectKeyResolves
  \/ Submit
  \/ StoryAnswer
  \/ ImageAnswer
  \/ Tick

Spec == Init /\ [][Next]_vars

\* the backend answers every narrative call: the awaited promise settles
FairSpec == Spec /\ WF_vars(StoryAnswer)

\* ---- what the claims speak of ----
StoryStep(resp) == \E call \in storyCalls : StoryResolves(call, resp)
Delta(resp) == generateStorySegment(resp).result
NoDuplicates(s) == \A i, j \in DOMAIN s : i # j => s[i] # s[j]
Last(s) == s[Len(s)]

\* C1: while a narrative call is outstanding, a submission (choice or free text) appends
\* nothing to the log, issues no call and leaves the turn state as it is; at most one
\* narrative call is in flight at any time.
C1_SubmissionIgnoredWhileAwaiting ==
  /\ [](Cardinality(storyCalls) <= 1)
  /\ [][(loading /\ \E action \in Submittable : handleAction(action))
          => (storyLog' = storyLog /\ storyCalls' = storyCalls /\ loading' = loading
              /\ gameState' = gameState /\ currentChoices' = currentChoices)]_vars

C1_Witness == loading /\ dropped /\ Cardinality(storyCalls) = 1

\* C2: after a turn's delta is applied the inventory is, as a set, (inventory before \cup
\* add) \ remove, with no duplicate and no item of the delta's remove list.
C2_InventoryIsUnionMinusRemove ==
  [][\A resp \in StoryResponses :
       StoryStep(resp) =>
         /\ Range(gameState'.inventory) =
              (Range(gameState.inventory) \cup Range(Delta(resp).inventory_add))
                \ Range(Delta(resp).inventory_remove)
         /\ NoDuplicates(gameState'.inventory)
         /\ Range(gameState'.inventory) \cap Range(Delta(resp).inventory_remove) = {}]_vars

\* the key stays and the torch, added and removed by one delta, is gone
C2_Witness == gameState.inventory = <<"rusty key">>

\* C3 as claimed: the quest becomes the delta's quest whenever that is non-null, and is
\* left alone when it is null.
C3_QuestReplacedIffNonNull ==
  [][\A resp \in StoryResponses :
       StoryStep(resp) =>
         gameState'.currentQuest =
           IF Delta(resp).new_quest # Null THEN Delta(resp).new_quest[1]
           ELSE gameState.currentQuest]_vars

\* C3 as amended: the quest becomes the delta's quest when that is a non-null, non-empty
\* string; a null or empty quest leaves it as it is, and the quest is never empty.
C3_QuestReplacedIffNonEmpty ==
  /\ [](gameState.currentQuest # "")
  /\ [][\A resp \in StoryResponses :
          StoryStep(resp) =>
            gameState'.currentQuest =
              IF Delta(resp).new_quest \notin {Null, Some("")} THEN Delta(resp).new_quest[1]
              ELSE gameState.currentQuest]_vars

C3_Witness == gameState.currentQuest = "Find the exit." /\ ~loading

\* C4: a failed narrative call (rejected, no text, unparsable text) ends the turn with the
\* fallback: one narrative segment with the fallback text is appended, inventory and quest
\* stay, and the choices are exactly "Try again".
C4_FailureYieldsFallback ==
  [][\A resp \in StoryFailures :
       StoryStep(resp) =>
         /\ Len(storyLog') = Len(storyLog) + 1
         /\ SubSeq(storyLog', 1, Len(storyLog)) = storyLog
         /\ Last(storyLog').text = FallbackText
         /\ ~Last(storyLog').isUser
         /\ gameState' = gameState
         /\ currentChoices' = <<"Try again">>
         /\ ~loading']_vars

C4_Witness ==
  /\ storyLog # <<>>
  /\ Last(storyLog).text = FallbackText
  /\ currentChoices = <<"Try again">>
  /\ ~loading

\* C5: no two segments of the log share an id.
C5_SegmentIdsUnique ==
  \A i, j \in DOMAIN storyLog : i # j => storyLog[i].id # storyLog[j].id

\* C6: the displayed choices are those of the most recent non-user segment of the log, or
\* the initial set while the log holds no such segment.
C6_ChoicesOfLatestNarrative ==
  LET narrative == SelectSeq(storyLog, LAMBDA seg : ~seg.isUser)
  IN currentChoices = IF narrative = <<>> THEN InitialChoices ELSE Last(narrative).choices

\* a call in flight after a completed turn, with an image patched in
C6_Witness ==
  /\ loading
  /\ Len(storyLog) >= 4
  /\ \E i \in DOMAIN storyLog : storyLog[i].imageUrl # Null
  /\ currentChoices = <<"Use key", "Leave">>

\* C7: a segment whose image call failed or gave no image keeps imageUrl absent in every
\* later state, is asked for no second image, and the failing call changes neither the log
\* nor the game state nor the turn state.
C7_FailedImageStaysAbsent ==
  /\ [](\A i \in DOMAIN storyLog :
          storyLog[i].serial \in imageless => storyLog[i].imageUrl = Null)
  /\ [](\A call \in imageCalls : call.serial \notin imageless)
  /\ [][\A resp \in ImageResponses :
          (generateSceneImage(resp) = Null /\ \E call \in imageCalls : ImageResolves(call, resp))
            => UNCHANGED <<storyLog, gameState, currentChoices, loading, storyCalls>>]_vars

\* C8: where the host hook is present, the initial segment is in the log only with a
\* credential selected, and with none after the selection flow the reload prompt is shown.
GameStarted == \E i \in DOMAIN storyLog : storyLog[i].id = "init"

C8_StartsOnlyWithCredential ==
  aistudio =>
    /\ GameStarted => credential
    /\ (initPc = "done" /\ ~credential) => (ReloadPromptShown /\ ~hasApiKey)

C10_ImagePatchesOnlyItsSegment ==
  [][\A resp \in ImageResponses : \A call \in imageCalls :
       ImageResolves(call, resp) =>
         /\ UNCHANGED <<gameState, currentChoices, loading, storyCalls, hasApiKey,
                        initializing>>
         /\ Len(storyLog') = Len(storyLog)
         /\ \A i \in DOMAIN storyLog :
              storyLog'[i] =
                IF storyLog[i].serial = call.serial /\ generateSceneImage(resp) # Null
                THEN [storyLog[i] EXCEPT !.imageUrl = generateSceneImage(resp)]
                ELSE storyLog[i]]_vars

\* C11: once the game has started, no step removes or reorders a segment of the log, and a
\* segment in the log changes in no field but imageUrl, which changes only from absent to
\* present (so at most once).
C11_LogAppendOnly ==
  [][GameStarted =>
       /\ Len(storyLog') >= Len(storyLog)
       /\ \A i \in DOMAIN storyLog :
            /\ [storyLog'[i] EXCEPT !.imageUrl = storyLog[i].imageUrl] = storyLog[i]
            /\ storyLog'[i].imageUrl # storyLog[i].imageUrl
                 => (storyLog[i].imageUrl = Null /\ storyLog'[i].imageUrl # Null)]_vars

\* C12: an accepted submission appends the user-action segment at once and the answer
\* appends one narrative segment, nothing else in between: with the game started and no
\* call in flight the log is the initial segment followed by one user action and one
\* narrative per turn, and the last segment is a user action exactly while a call is in
\* flight.
C12_TwoSegmentsPerTurn ==
  /\ [](storyLog # <<>> => (Last(storyLog).isUser <=> loading))
  /\ []((GameStarted /\ ~loading) =>
          /\ Len(storyLog) = 1 + 2 * turns
          /\ storyLog[1].id = "init"
          /\ \A i \in 2..Len(storyLog) : storyLog[i].isUser <=> (i % 2 = 0))
  /\ [][(~loading /\ \E action \in Submittable : handleAction(action)) =>
          /\ Len(storyLog') = Len(storyLog) + 1
          /\ SubSeq(storyLog', 1, Len(storyLog)) = storyLog
          /\ Last(storyLog').isUser]_vars
  /\ [][\A resp \in StoryResponses :
          StoryStep(resp) =>
            /\ Len(storyLog') = Len(storyLog) + 1
            /\ SubSeq(storyLog', 1, Len(storyLog)) = storyLog
            /\ ~Last(storyLog').isUser
            /\ Last(storyLog).isUser]_vars

====
